---- MODULE Spec2Model ----
(***************************************************************************)
(* Model of ImageProcessor (image_processor.py): load_logo, apply_logo and *)
(* batch_process.  An image is a record of its size, its mode and the list *)
(* of overlays pasted onto it; fractions (size, opacity, the relative      *)
(* anchor coordinates) are exact rationals [n, d].                         *)
(***************************************************************************)
EXTENDS Integers, Sequences, FiniteSets, TLC

VARIABLES
    current_logo,      \* ImageProcessor.current_logo
    default_settings,  \* ImageProcessor.default_settings
    arg,               \* the image passed to the latest apply_logo call, as passed
    kwargs,            \* the keyword arguments of that call
    image,             \* the same image object after the call (None: no call yet)
    result,            \* what the call returned
    error,             \* the error the latest operation logged
    batch,             \* the batch_process call in progress or just returned
    app                \* LogoMasterApp with its settings panel and progress dialogs

vars == <<current_logo, default_settings, arg, kwargs, image, result, error, batch, app>>

\* ------------------------------------------------------------------ bounds
MaxDim == 3
MaxLogoDim == 2
MaxMargin == 2
MaxItems == 2

\* batch worker threads started and not yet in batch_process
MaxWorkers == 2

\* ------------------------------------------------------------ basic values
None == [tag |-> "None"]

R(n, d) == [n |-> n, d |-> d]

Less(a, b) == a.n * b.d < b.n * a.d

Max(a, b) == IF a >= b THEN a ELSE b

Min(a, b) == IF a <= b THEN a ELSE b

\* Python int(): truncation toward zero of the rational a / d, d > 0
PyInt(a, d) == IF a >= 0 THEN a \div d ELSE -((-a) \div d)

\* floor(log2(num / den)) for num, den > 0
RECURSIVE FLog2(_, _)
FLog2(num, den) ==
    IF num >= 2 * den THEN FLog2(num, 2 * den) + 1
    ELSE IF num < den THEN FLog2(2 * num, den) - 1
    ELSE 0

RECURSIVE Pow2(_)
Pow2(e) == IF e = 0 THEN 1 ELSE 2 * Pow2(e - 1)

\* 2^k mod b
RECURSIVE Pow2Mod(_, _)
Pow2Mod(k, b) == IF k = 0 THEN 1 % b ELSE (2 * Pow2Mod(k - 1, b)) % b

\* The double a / b (0 < a, b) has a 53-bit significand m = round(a * 2^k / b),
\* k = 52 - floor(log2(a / b)); this is the remainder a * 2^k - floor(..) * b.
QuotientRemainder(a, b) == ((a % b) * Pow2Mod(52 - FLog2(a, b), b)) % b

\* For 0 < h, a, b with b dividing h * a: whether the double product
\* h * (a / b) is below the whole number n = h * a / b.  It is when the
\* quotient was rounded down by r / (b * 2^k) and h times that error is more
\* than half the spacing of the doubles just below n.
ProductBelowWhole(h, a, b) ==
    LET r == QuotientRemainder(a, b)
        n == (h * a) \div b
        i == FLog2(a, b)
        j == FLog2(n, 1)
    IN  /\ r # 0
        /\ 2 * r <= b
        /\ (IF n = Pow2(j) THEN 4 ELSE 2) * h * r > b * Pow2(j - i)

\* Python int(h * (a / b)) in double arithmetic, for integers h > 0, a, b > 0
\* (sizes below 2^13): the truncated exact value, or one less in magnitude
\* when the exact value is whole and the double product falls below it.
PyFloatInt(h, a, b) ==
    LET m == IF a < 0 THEN -a ELSE a
        q == (h * m) \div b
        v == IF m > 0 /\ (h * m) % b = 0 /\ ProductBelowWhole(h, m, b) THEN q - 1 ELSE q
    IN  IF a < 0 THEN -v ELSE v

\* a decoded base image: nothing pasted onto it yet
Picture(w, h) == [tag |-> "Image", w |-> w, h |-> h, mode |-> "RGB", layers |-> <<>>]

\* a decoded logo; own: it was decoded with an alpha channel of its own;
\* alpha = None: no opacity has been applied to its alpha channel
Logo(w, h, mode) ==
    [tag |-> "Image", w |-> w, h |-> h, mode |-> mode, own |-> (mode = "RGBA"), alpha |-> None]

\* a file path, as pathlib splits it
Path(dir, stem, ext) == [dir |-> dir, stem |-> stem, suffix |-> "", ext |-> ext]

\* --------------------------------------------------------------- config.py
IMAGE_CONFIG ==
    [default_logo_size |-> R(1, 10),
     default_opacity |-> R(8, 10),
     default_position |-> "bottom_right",
     logo_margin |-> 20]

PositionNames ==
    {"top_left", "top_center", "top_right",
     "center_left", "center", "center_right",
     "bottom_left", "bottom_center", "bottom_right"}

\* the anchors with the two coordinates of each pair exchanged
LOGO_POSITIONS_Transposed ==
    [p \in PositionNames |->
        CASE p = "top_left" -> <<R(0, 1), R(0, 1)>>
          [] p = "top_center" -> <<R(0, 1), R(1, 2)>>
          [] p = "top_right" -> <<R(0, 1), R(1, 1)>>
          [] p = "center_left" -> <<R(1, 2), R(0, 1)>>
          [] p = "center" -> <<R(1, 2), R(1, 2)>>
          [] p = "center_right" -> <<R(1, 2), R(1, 1)>>
          [] p = "bottom_left" -> <<R(1, 1), R(0, 1)>>
          [] p = "bottom_center" -> <<R(1, 1), R(1, 2)>>
          [] p = "bottom_right" -> <<R(1, 1), R(1, 1)>>]

LOGO_POSITIONS ==
    [p \in PositionNames |->
        CASE p = "top_left" -> <<R(0, 1), R(0, 1)>>
          [] p = "top_center" -> <<R(1, 2), R(0, 1)>>
          [] p = "top_right" -> <<R(1, 1), R(0, 1)>>
          [] p = "center_left" -> <<R(0, 1), R(1, 2)>>
          [] p = "center" -> <<R(1, 2), R(1, 2)>>
          [] p = "center_right" -> <<R(1, 1), R(1, 2)>>
          [] p = "bottom_left" -> <<R(0, 1), R(1, 1)>>
          [] p = "bottom_center" -> <<R(1, 2), R(1, 1)>>
          [] p = "bottom_right" -> <<R(1, 1), R(1, 1)>>]

\* ------------------------------------------------------------- apply_logo
\* settings = self.default_settings.copy(); settings.update(kwargs)
Settings(defaults, kw) ==
    [k \in DOMAIN defaults \cup DOMAIN kw |->
        IF k \in DOMAIN kw THEN kw[k] ELSE defaults[k]]

\* settings.get('custom_position')
GetCustomPosition(settings) ==
    IF "custom_position" \in DOMAIN settings THEN settings["custom_position"] ELSE None

\* the image itself handed on instead of a copy
Copy_Alias(img) == [kind |-> "alias", value |-> img]

\* image.copy(): a new object with the same contents
Copy(img) == [kind |-> "new", value |-> img]

\* Image.resize: raises ValueError unless both target dimensions are >= 1
ResizeRaises(w, h) == w < 1 \/ h < 1

Resize(logo, w, h) == [logo EXCEPT !.w = w, !.h = h]

\* the alpha channel scaled whatever the opacity
ApplyOpacity_AlwaysScales(logo, opacity) ==
    [logo EXCEPT !.mode = "RGBA", !.alpha = opacity]

\* an opacity of 0 taken for no opacity given
ApplyOpacity_SkipsZero(logo, opacity) ==
    IF Less(R(0, 1), opacity) /\ Less(opacity, R(1, 1))
    THEN [logo EXCEPT !.mode = "RGBA", !.alpha = opacity]
    ELSE logo

\* lines 308-315: the alpha channel is scaled only when opacity < 1.0
ApplyOpacity(logo, opacity) ==
    IF Less(opacity, R(1, 1))
    THEN [logo EXCEPT !.mode = "RGBA", !.alpha = opacity]
    ELSE logo

\* lines 327-328: int((img_dim - logo_dim) * rel)
AnchorCoord(img_dim, logo_dim, rel) == PyInt((img_dim - logo_dim) * rel.n, rel.d)

\* the margin applied with the signs exchanged
MarginCoord_SignsExchanged(c, rel, margin) ==
    IF rel.n = 0 THEN c - margin
    ELSE IF rel.n = rel.d THEN c + margin
    ELSE c

\* lines 331-339: margin pushes away from the edge the anchor touches
MarginCoord(c, rel, margin) ==
    IF rel.n = 0 THEN c + margin
    ELSE IF rel.n = rel.d THEN c - margin
    ELSE c

\* lines 342-343
\* a clamp that only keeps the logo from passing the far edge
Clamp_NoLowerBound(c, img_dim, logo_dim) == Min(c, img_dim - logo_dim)

\* a clamp that only keeps the coordinate from going negative
Clamp_NoUpperBound(c, img_dim, logo_dim) == Max(0, c)

Clamp(c, img_dim, logo_dim) == Max(0, Min(c, img_dim - logo_dim))

\* an unknown name falling back to the first anchor instead
Anchor_FallsBackToTopLeft(position) ==
    IF position \in DOMAIN LOGO_POSITIONS
    THEN LOGO_POSITIONS[position]
    ELSE LOGO_POSITIONS["top_left"]

\* lines 321-324
Anchor(position) ==
    IF position \in DOMAIN LOGO_POSITIONS
    THEN LOGO_POSITIONS[position]
    ELSE LOGO_POSITIONS["bottom_right"]

\* a custom position of (0, 0) taken for no custom position
Place_OriginIsNoPosition(settings, img_width, img_height, logo_width, logo_height) ==
    LET custom_position == GetCustomPosition(settings)
        rel == Anchor(settings["position"])
    IN  IF custom_position # None /\ custom_position # [x |-> 0, y |-> 0]
        THEN <<custom_position.x, custom_position.y>>
        ELSE <<MarginCoord(AnchorCoord(img_width, logo_width, rel[1]), rel[1], settings["margin"]),
               MarginCoord(AnchorCoord(img_height, logo_height, rel[2]), rel[2], settings["margin"])>>

\* lines 318-339: the position before the clamp
Place(settings, img_width, img_height, logo_width, logo_height) ==
    LET custom_position == GetCustomPosition(settings)
        rel == Anchor(settings["position"])
    IN  IF custom_position # None
        THEN <<custom_position.x, custom_position.y>>
        ELSE <<MarginCoord(AnchorCoord(img_width, logo_width, rel[1]), rel[1], settings["margin"]),
               MarginCoord(AnchorCoord(img_height, logo_height, rel[2]), rel[2], settings["margin"])>>

\* a paste at (y, x)
Paste_Transposed(img, logo, x, y) ==
    [img EXCEPT !.layers = Append(@,
        [x |-> y, y |-> x, w |-> logo.w, h |-> logo.h,
         masked |-> (logo.mode = "RGBA"), own |-> logo.own, alpha |-> logo.alpha])]

\* a paste that grows the canvas until the whole logo fits
Paste_GrowsCanvas(img, logo, x, y) ==
    [img EXCEPT !.w = Max(@, x + logo.w), !.h = Max(@, y + logo.h),
                !.layers = Append(@,
        [x |-> x, y |-> y, w |-> logo.w, h |-> logo.h,
         masked |-> (logo.mode = "RGBA"), own |-> logo.own, alpha |-> logo.alpha])]

\* lines 346-349: result.paste(resized_logo, (x, y)[, resized_logo])
Paste(img, logo, x, y) ==
    [img EXCEPT !.layers = Append(@,
        [x |-> x, y |-> y, w |-> logo.w, h |-> logo.h,
         masked |-> (logo.mode = "RGBA"), own |-> logo.own, alpha |-> logo.alpha])]

\* line 314, ImageEnhance.Brightness(alpha).enhance(opacity): every alpha
\* value a becomes a * opacity, truncated and clipped to 0..255
ScaleAlpha(a, opacity) == Max(0, Min(255, PyInt(a * opacity.n, opacity.d)))

\* The mask value paste uses at a logo pixel whose decoded alpha is own_a:
\* a paste without mask replaces the pixel; a logo converted to RGBA on
\* line 310 is opaque before the opacity is applied.
MaskAt(layer, own_a) ==
    IF ~layer.masked THEN 255
    ELSE LET a0 == IF layer.own THEN own_a ELSE 255
         IN  IF layer.alpha = None THEN a0 ELSE ScaleAlpha(a0, layer.alpha)

\* Pillow's a * b / 255 on bytes
MulDiv255(a, b) == (((a * b + 128) \div 256) + (a * b + 128)) \div 256

\* line 347: one channel of a pixel pasted through a mask value
BlendPixel(base_c, logo_c, mask) == MulDiv255(base_c, 255 - mask) + MulDiv255(logo_c, mask)

\* One channel of the pixel (i, j) of an image with at most one overlay, where
\* the image under the overlays has base_c there and the logo logo_c, own_a
PixelAt(img, i, j, base_c, logo_c, own_a) ==
    IF img.layers = <<>> THEN base_c
    ELSE LET l == img.layers[Len(img.layers)]
         IN  IF l.x <= i /\ i < l.x + l.w /\ l.y <= j /\ j < l.y + l.h
             THEN BlendPixel(base_c, logo_c, MaskAt(l, own_a))
             ELSE base_c

\* line 298: int(img_width * logo_size), logo_size the double n / d
LogoWidth(img_width, logo_size) == PyFloatInt(img_width, logo_size.n, logo_size.d)

\* line 299: int(logo_h * (logo_width / logo_w))
LogoHeight(logo, logo_width) == PyFloatInt(logo.h, logo_width, logo.w)

\* The outcome of one call: the caller's image object after the call, the
\* returned image (or None) and the error that was logged.
apply_logo(logo, defaults, img, kw) ==
    IF logo = None
    THEN [image |-> img, result |-> None, error |-> "no_logo"]
    ELSE
      LET settings == Settings(defaults, kw)
          copy == Copy(img)
          img_width == copy.value.w
          img_height == copy.value.h
          logo_width == LogoWidth(img_width, settings["size"])
          logo_height == LogoHeight(logo, logo_width)
      IN  IF ResizeRaises(logo_width, logo_height)
          THEN [image |-> img, result |-> None, error |-> "exception"]
          ELSE
            LET resized_logo == ApplyOpacity(Resize(logo, logo_width, logo_height),
                                             settings["opacity"])
                pos == Place(settings, img_width, img_height, logo_width, logo_height)
                x == Clamp(pos[1], img_width, logo_width)
                y == Clamp(pos[2], img_height, logo_height)
                pasted == Paste(copy.value, resized_logo, x, y)
            IN  [image |-> IF copy.kind = "new" THEN img ELSE pasted,
                 result |-> pasted,
                 error |-> "none"]


\* -------------------------------------------------------------- load_logo
\* A logo file on disk: whether it exists, whether its extension is a
\* supported logo format, and what Image.open decodes it to (None: raises).
LogoFile(exists, supported, decoded) ==
    [exists |-> exists, supported |-> supported, decoded |-> decoded]

\* lines 236-260: the new value of current_logo and the value returned
load_logo(logo, file) ==
    IF ~file.exists THEN [current_logo |-> logo, ret |-> FALSE]
    ELSE IF ~file.supported THEN [current_logo |-> logo, ret |-> FALSE]
    ELSE IF file.decoded = None THEN [current_logo |-> logo, ret |-> FALSE]
    ELSE [current_logo |->
             Logo(file.decoded.w, file.decoded.h,
                  IF file.decoded.mode \in {"RGBA", "LA"} THEN "RGBA" ELSE "RGB"),
          ret |-> TRUE]

\* ---------------------------------------------------------- batch_process
\* What load_image returns for each path of the modelled disk
load_image(path) ==
    CASE path = Path("d1", "a", ".jpg") -> Picture(MaxDim, MaxDim)
      [] path = Path("d2", "a", ".png") -> Picture(MaxDim, 1)
      [] path = Path("d1", "b", ".jpg") -> Picture(1, 1)
      [] OTHER -> None

\* lines 478-479: output_path / f"{original_name}_with_logo.jpg"
OutputFile(output_dir, image_path) ==
    [dir |-> output_dir, stem |-> image_path.stem, suffix |-> "_with_logo", ext |-> ".jpg"]

IdleBatch ==
    [status |-> "idle", image_paths |-> <<>>, settings |-> None, callback |-> FALSE,
     i |-> 0, processed_paths |-> <<>>, progress |-> <<>>,
     loaded |-> <<>>, composited |-> <<>>, saved |-> <<>>, ret |-> None]

\* --------------------------------------------------------------- inputs
EmptyKwargs == [k \in {} |-> None]

ScenarioImage == Picture(1000, 800)

ScenarioLogoFile == LogoFile(TRUE, TRUE, [w |-> 200, h |-> 100, mode |-> "RGBA"])

ScenarioKwargs ==
    [position |-> "bottom_right", size |-> R(1, 5), margin |-> 20, opacity |-> R(1, 1)]

\* sizes at which the double product of line 298 or 299 is not exact
FloatImage == Picture(90, 90)

FloatLogoFile == LogoFile(TRUE, TRUE, [w |-> 39, h |-> 39, mode |-> "RGB"])

Images == {Picture(w, h) : w \in 1..MaxDim, h \in 1..MaxDim} \cup {ScenarioImage, FloatImage}

LogoFiles ==
    {LogoFile(TRUE, TRUE, [w |-> w, h |-> h, mode |-> "RGBA"]) :
        w \in 1..MaxLogoDim, h \in 1..MaxLogoDim}
    \cup {LogoFile(TRUE, TRUE, [w |-> 1, h |-> MaxLogoDim, mode |-> m]) :
             m \in {"RGB", "LA", "L"}}
    \cup {ScenarioLogoFile, FloatLogoFile,
          LogoFile(FALSE, TRUE, None), LogoFile(TRUE, FALSE, None), LogoFile(TRUE, TRUE, None)}

\* channel and alpha values of the pixels looked at
ColorSamples == {0, 100, 255}

AlphaSamples == {0, 128, 255}

Positions == PositionNames \cup {"middle"}

Sizes == {R(0, 1), R(7, 10), R(1, 1), R(6, 5)}

Opacities == {R(0, 1), R(1, 2), R(1, 1), R(3, 2)}

Margins == 0..MaxMargin

CustomPositions ==
    {None, [x |-> 0, y |-> 0],
     [x |-> -1, y |-> MaxDim + 1], [x |-> MaxDim + 1, y |-> -1]}

Kwargs ==
    [position : Positions, size : Sizes, opacity : Opacities, margin : Margins,
     custom_position : CustomPositions]
    \cup {EmptyKwargs, ScenarioKwargs}

\* the few logo files the state machine loads
FewLogoFiles ==
    {ScenarioLogoFile,
     LogoFile(TRUE, TRUE, [w |-> 1, h |-> MaxLogoDim, mode |-> "RGB"]),
     LogoFile(TRUE, TRUE, [w |-> MaxLogoDim, h |-> 1, mode |-> "LA"]),
     LogoFile(FALSE, TRUE, None), LogoFile(TRUE, FALSE, None), LogoFile(TRUE, TRUE, None)}

\* the few calls the state machine makes between loads and batches
FewImages == {Picture(MaxDim, MaxDim), Picture(MaxDim, 1), ScenarioImage}

FewKwargs ==
    {EmptyKwargs, ScenarioKwargs,
     [position |-> "center", size |-> R(1, 1), opacity |-> R(1, 2), margin |-> 0,
      custom_position |-> [x |-> 0, y |-> 0]],
     [position |-> "top_left", size |-> R(6, 5), opacity |-> R(3, 2), margin |-> 1,
      custom_position |-> None]}

BatchKwargs ==
    {EmptyKwargs,
     [position |-> "center", size |-> R(1, 1), opacity |-> R(1, 2), margin |-> 0],
     [position |-> "top_left", size |-> R(7, 10), opacity |-> R(1, 1), margin |-> 1]}

ImagePaths ==
    {Path("d1", "a", ".jpg"), Path("d2", "a", ".png"), Path("d1", "b", ".jpg"),
     Path("d1", "c", ".gif")}

PathLists == UNION {[1..n -> ImagePaths] : n \in 0..MaxItems}

\* ------------------------------------------------------------------ main.py
\* validate_image_file on the modelled disk: it makes the checks load_image makes
validate_image_file(path) == load_image(path) # None

\* _update_ui_state, lines 1035-1051: the toolbar buttons that are enabled
_update_ui_state(a) ==
    [a EXCEPT !.buttons =
        [load_images |-> ~a.is_processing,
         load_logo |-> ~a.is_processing,
         apply_logo |-> a.current_images # <<>> /\ a.logo_loaded /\ ~a.is_processing,
         batch |-> a.current_images # <<>> /\ a.logo_loaded /\ ~a.is_processing,
         save |-> DOMAIN a.processed_images # {} /\ ~a.is_processing]]

\* ui_components.py, lines 646, 690, 736, 782: what the controls of the
\* settings panel hold when they are created
PanelDefaults == [position |-> "bottom_right", size |-> R(1, 5), opacity |-> R(1, 1), margin |-> 20]

\* LogoMasterApp.__init__, lines 54-59, the buttons as _create_ui leaves them,
\* SettingsPanel.__init__ (settings = {}, the controls at their defaults);
\* no progress dialog, no worker
InitialApp ==
    _update_ui_state(
        [current_images |-> <<>>,
         current_image_index |-> 0,
         processed_images |-> [f \in {} |-> None],
         logo_loaded |-> FALSE,
         is_processing |-> FALSE,
         settings |-> EmptyKwargs,
         controls |-> PanelDefaults,
         buttons |-> None,
         threads |-> <<>>,
         running |-> None,
         refresh_pending |-> FALSE,
         call |-> "none",
         cache_hit |-> FALSE])

\* the worker threads that exist: started, or inside batch_process
InUse(a, id) ==
    \/ \E t \in 1..Len(a.threads) : a.threads[t].id = id
    \/ a.running # None /\ a.running.id = id

\* the identity of the next thread: the first one not in use
FreeId(a) == CHOOSE id \in 0..MaxWorkers : ~InUse(a, id) /\ \A j \in 0..(id - 1) : InUse(a, j)

\* a progress dialog holds the grab of the application while it is open
Modal(a) ==
    \/ \E t \in 1..Len(a.threads) : a.threads[t].dialog = "open"
    \/ a.running # None /\ a.running.dialog = "open"

\* ---------------------------------------------------------------- actions
DefaultSettings ==
    [position |-> IMAGE_CONFIG.default_position,
     size |-> IMAGE_CONFIG.default_logo_size,
     opacity |-> IMAGE_CONFIG.default_opacity,
     margin |-> IMAGE_CONFIG.logo_margin]

Init ==
    /\ current_logo = None
    /\ default_settings = DefaultSettings
    /\ arg = None
    /\ kwargs = EmptyKwargs
    /\ image = None
    /\ result = None
    /\ error = "none"
    /\ batch = IdleBatch
    /\ app = InitialApp

\* processor.load_logo(logo_path)
LoadLogo(file) ==
    /\ current_logo' = load_logo(current_logo, file).current_logo
    /\ IF batch.status = "running"
       THEN UNCHANGED <<arg, kwargs, image, result, error, batch>>
       ELSE /\ arg' = None
            /\ kwargs' = EmptyKwargs
            /\ image' = None
            /\ result' = None
            /\ error' = "none"
            /\ batch' = IdleBatch
    /\ UNCHANGED default_settings

\* processor.apply_logo(img, **kw), called outside a batch
ApplyLogo(img, kw) ==
    /\ batch.status # "running"
    /\ LET r == apply_logo(current_logo, default_settings, img, kw)
       IN  /\ image' = r.image
           /\ result' = r.result
           /\ error' = r.error
    /\ arg' = img
    /\ kwargs' = kw
    /\ batch' = IdleBatch
    /\ UNCHANGED <<current_logo, default_settings>>

\* a batch that starts its loop without looking at current_logo
BatchStart_NoLogoCheck(image_paths, callback, kw) ==
    /\ batch.status # "running"
    /\ arg' = None
    /\ kwargs' = EmptyKwargs
    /\ image' = None
    /\ result' = None
    /\ error' = "none"
    /\ batch' = [IdleBatch EXCEPT !.status = "running", !.image_paths = image_paths,
                                  !.settings = kw, !.callback = callback]
    /\ UNCHANGED <<current_logo, default_settings>>

\* batch_process, lines 451-459: the logo check and the set-up
BatchStart(image_paths, callback, kw) ==
    /\ batch.status # "running"
    /\ arg' = None
    /\ kwargs' = EmptyKwargs
    /\ image' = None
    /\ result' = None
    /\ IF current_logo = None
       THEN /\ error' = "no_logo"
            /\ batch' = [IdleBatch EXCEPT !.status = "done", !.image_paths = image_paths,
                                          !.settings = kw, !.callback = callback,
                                          !.ret = <<>>]
       ELSE /\ error' = "none"
            /\ batch' = [IdleBatch EXCEPT !.status = "running", !.image_paths = image_paths,
                                          !.settings = kw, !.callback = callback]
    /\ UNCHANGED <<current_logo, default_settings>>

\* an iteration that returns the output path whether or not it was saved
BatchItem_AppendsUnsaved(save_ok) ==
    /\ batch.status = "running"
    /\ batch.i < Len(batch.image_paths)
    /\ LET image_path == batch.image_paths[batch.i + 1]
           progress == IF batch.callback
                       THEN Append(batch.progress, <<batch.i, Len(batch.image_paths)>>)
                       ELSE batch.progress
           img == load_image(image_path)
           r == apply_logo(current_logo, default_settings, img, batch.settings)
           output_file == OutputFile("out", image_path)
           b1 == [batch EXCEPT !.i = @ + 1, !.progress = progress]
       IN  IF img = None
           THEN /\ batch' = b1
                /\ UNCHANGED <<arg, kwargs, image, result, error>>
           ELSE /\ arg' = img
                /\ kwargs' = batch.settings
                /\ image' = r.image
                /\ result' = r.result
                /\ error' = r.error
                /\ IF r.result = None
                   THEN batch' = [b1 EXCEPT !.loaded = Append(@, image_path)]
                   ELSE IF save_ok
                   THEN batch' = [b1 EXCEPT !.loaded = Append(@, image_path),
                                           !.composited = Append(@, image_path),
                                           !.saved = Append(@, output_file),
                                           !.processed_paths = Append(@, output_file)]
                   ELSE batch' = [b1 EXCEPT !.loaded = Append(@, image_path),
                                           !.composited = Append(@, image_path),
                                           !.processed_paths = Append(@, output_file)]
    /\ UNCHANGED <<current_logo, default_settings>>

\* batch_process, lines 461-486: one iteration of the loop
BatchItem(save_ok) ==
    /\ batch.status = "running"
    /\ batch.i < Len(batch.image_paths)
    /\ LET image_path == batch.image_paths[batch.i + 1]
           progress == IF batch.callback
                       THEN Append(batch.progress, <<batch.i, Len(batch.image_paths)>>)
                       ELSE batch.progress
           img == load_image(image_path)
           r == apply_logo(current_logo, default_settings, img, batch.settings)
           output_file == OutputFile("out", image_path)
           b1 == [batch EXCEPT !.i = @ + 1, !.progress = progress]
       IN  IF img = None
           THEN /\ batch' = b1
                /\ UNCHANGED <<arg, kwargs, image, result, error>>
           ELSE /\ arg' = img
                /\ kwargs' = batch.settings
                /\ image' = r.image
                /\ result' = r.result
                /\ error' = r.error
                /\ IF r.result = None
                   THEN batch' = [b1 EXCEPT !.loaded = Append(@, image_path)]
                   ELSE IF save_ok
                   THEN batch' = [b1 EXCEPT !.loaded = Append(@, image_path),
                                           !.composited = Append(@, image_path),
                                           !.saved = Append(@, output_file),
                                           !.processed_paths = Append(@, output_file)]
                   ELSE batch' = [b1 EXCEPT !.loaded = Append(@, image_path),
                                           !.composited = Append(@, image_path)]
    /\ UNCHANGED <<current_logo, default_settings>>

\* a return without the final callback
BatchEnd_NoFinalCallback ==
    /\ batch.status = "running"
    /\ batch.i = Len(batch.image_paths)
    /\ batch' = [batch EXCEPT !.status = "done", !.ret = batch.processed_paths]
    /\ UNCHANGED <<current_logo, default_settings, arg, kwargs, image, result, error>>

\* batch_process, lines 488-492: the final callback and the return
BatchEnd ==
    /\ batch.status = "running"
    /\ batch.i = Len(batch.image_paths)
    /\ batch' = [batch EXCEPT
                   !.status = "done",
                   !.progress = IF batch.callback
                                THEN Append(@, <<Len(batch.image_paths), Len(batch.image_paths)>>)
                                ELSE @,
                   !.ret = batch.processed_paths]
    /\ UNCHANGED <<current_logo, default_settings, arg, kwargs, image, result, error>>

Next ==
    \/ \E file \in FewLogoFiles : LoadLogo(file) /\ UNCHANGED app
    \/ \E img \in FewImages, kw \in FewKwargs : ApplyLogo(img, kw) /\ UNCHANGED app
    \/ \E image_paths \in PathLists, callback \in BOOLEAN, kw \in BatchKwargs :
          BatchStart(image_paths, callback, kw) /\ UNCHANGED app
    \/ \E save_ok \in BOOLEAN : BatchItem(save_ok) /\ UNCHANGED app
    \/ BatchEnd /\ UNCHANGED app

Spec == Init /\ [][Next]_vars

\* ------------------------------------------- apply_logo as a pure function
\* Every logo load_logo can leave in current_logo, or none
Logos == {load_logo(None, file).current_logo : file \in LogoFiles}

\* One call of apply_logo on drawn inputs: the call is pending while image = None
CallInit ==
    /\ current_logo \in Logos
    /\ default_settings = DefaultSettings
    /\ arg \in Images
    /\ kwargs \in Kwargs
    /\ image = None
    /\ result = None
    /\ error = "none"
    /\ batch = IdleBatch
    /\ app = InitialApp

Call ==
    /\ image = None
    /\ ApplyLogo(arg, kwargs)
    /\ UNCHANGED app

CallSpec == CallInit /\ [][Call]_vars

\* ------------------------------------------------------- the shell, main.py
\* what the user can hand to the shell
ShellLogoFiles ==
    {None, LogoFile(TRUE, TRUE, [w |-> 1, h |-> MaxLogoDim, mode |-> "RGBA"]),
     LogoFile(TRUE, FALSE, [w |-> 1, h |-> 1, mode |-> "RGB"]),
     LogoFile(TRUE, TRUE, None)}

ShellPathLists ==
    {<<Path("d1", "c", ".gif")>>,
     <<Path("d1", "a", ".jpg"), Path("d1", "c", ".gif"), Path("d1", "b", ".jpg")>>,
     <<Path("d2", "a", ".png")>>}

\* values the controls can be moved to (size 0.05-0.5, opacity 0.1-1.0,
\* margin 0-100 in steps of 5)
PanelSettings ==
    {[position |-> "top_left", size |-> R(1, 2), opacity |-> R(1, 2), margin |-> 5]}

\* SettingsPanel._on_setting_change, lines 812-831: a control was moved
_on_setting_change(settings) ==
    /\ ~Modal(app)
    /\ app' = [app EXCEPT !.controls = settings, !.settings = settings, !.call = "none", !.cache_hit = FALSE]
    /\ UNCHANGED <<current_logo, default_settings, arg, kwargs, image, result, error, batch>>

\* a load that keeps the results of the images loaded before
_load_image_files_KeepsCache(file_paths) ==
    /\ ~Modal(app)
    /\ LET valid_files == SelectSeq(file_paths, validate_image_file)
       IN  IF valid_files = <<>>
           THEN app' = [app EXCEPT !.call = "none", !.cache_hit = FALSE]
           ELSE app' = _update_ui_state(
                          [app EXCEPT !.current_images = valid_files,
                                      !.current_image_index = 0,
                                      !.call = "none", !.cache_hit = FALSE])
    /\ UNCHANGED <<current_logo, default_settings, arg, kwargs, image, result, error, batch>>

\* _load_image_files, lines 452-500 (reached from the button, a click on the
\* empty viewer or a drop)
_load_image_files(file_paths) ==
    /\ ~Modal(app)
    /\ LET valid_files == SelectSeq(file_paths, validate_image_file)
       IN  IF valid_files = <<>>
           THEN app' = [app EXCEPT !.call = "none", !.cache_hit = FALSE]
           ELSE app' = _update_ui_state(
                          [app EXCEPT !.current_images = valid_files,
                                      !.current_image_index = 0,
                                      !.processed_images = [f \in {} |-> None],
                                      !.call = "none", !.cache_hit = FALSE])
    /\ UNCHANGED <<current_logo, default_settings, arg, kwargs, image, result, error, batch>>

\* the handler with logo_loaded set whatever load_logo returned
_load_logo_IgnoresResult(file, is_valid) ==
    /\ ~Modal(app)
    /\ app.buttons.load_logo
    /\ is_valid => (file # None /\ file.exists /\ file.decoded # None)
    /\ IF file = None \/ ~is_valid
       THEN /\ app' = [app EXCEPT !.call = "none", !.cache_hit = FALSE]
            /\ UNCHANGED current_logo
       ELSE /\ current_logo' = load_logo(current_logo, file).current_logo
            /\ app' = _update_ui_state([app EXCEPT !.logo_loaded = TRUE, !.call = "load_logo", !.cache_hit = FALSE])
    /\ UNCHANGED <<default_settings, arg, kwargs, image, result, error, batch>>

\* _load_logo, lines 502-545: file = None when the file dialog was dismissed;
\* is_valid is what validate_image_file answers, TRUE only for a file that
\* exists and opens as an image
_load_logo(file, is_valid) ==
    /\ ~Modal(app)
    /\ app.buttons.load_logo
    /\ is_valid => (file # None /\ file.exists /\ file.decoded # None)
    /\ IF file = None \/ ~is_valid
       THEN /\ app' = [app EXCEPT !.call = "none", !.cache_hit = FALSE]
            /\ UNCHANGED current_logo
       ELSE LET r == load_logo(current_logo, file)
            IN  /\ current_logo' = r.current_logo
                /\ app' = IF r.ret
                          THEN _update_ui_state([app EXCEPT !.logo_loaded = TRUE,
                                                            !.call = "load_logo", !.cache_hit = FALSE])
                          ELSE [app EXCEPT !.call = "load_logo_failed", !.cache_hit = FALSE]
    /\ UNCHANGED <<default_settings, arg, kwargs, image, result, error, batch>>

\* the logo applied to the cached result instead of the cached original
_apply_logo_to_current_OntoProcessed ==
    /\ ~Modal(app)
    /\ app.buttons.apply_logo
    /\ IF app.current_images = <<>> \/ ~app.logo_loaded
       THEN /\ app' = [app EXCEPT !.call = "none", !.cache_hit = FALSE]
            /\ UNCHANGED <<arg, kwargs, image, result, error>>
       ELSE
         LET current_file == app.current_images[app.current_image_index + 1]
             img == IF current_file \in DOMAIN app.processed_images
                    THEN app.processed_images[current_file].processed
                    ELSE load_image(current_file)
             settings == app.settings
             r == apply_logo(current_logo, default_settings, img, settings)
             entry == [original |-> img, processed |-> r.result, settings |-> settings]
         IN  IF img = None
             THEN /\ app' = [app EXCEPT !.call = "load_image", !.cache_hit = FALSE]
                  /\ UNCHANGED <<arg, kwargs, image, result, error>>
             ELSE /\ arg' = img
                  /\ kwargs' = settings
                  /\ image' = r.image
                  /\ result' = r.result
                  /\ error' = r.error
                  /\ app' = IF r.result # None
                            THEN _update_ui_state(
                                   [app EXCEPT
                                      !.processed_images =
                                          [f \in DOMAIN @ \cup {current_file} |->
                                              IF f = current_file THEN entry ELSE @[f]],
                                      !.call = "apply_logo",
                                      !.cache_hit = current_file \in DOMAIN app.processed_images])
                            ELSE [app EXCEPT !.call = "apply_logo",
                                             !.cache_hit = current_file \in DOMAIN app.processed_images]
    /\ UNCHANGED <<current_logo, default_settings, batch>>

\* _apply_logo_to_current, lines 547-598
_apply_logo_to_current ==
    /\ ~Modal(app)
    /\ app.buttons.apply_logo
    /\ IF app.current_images = <<>> \/ ~app.logo_loaded
       THEN /\ app' = [app EXCEPT !.call = "none", !.cache_hit = FALSE]
            /\ UNCHANGED <<arg, kwargs, image, result, error>>
       ELSE
         LET current_file == app.current_images[app.current_image_index + 1]
             img == IF current_file \in DOMAIN app.processed_images
                    THEN app.processed_images[current_file].original
                    ELSE load_image(current_file)
             settings == app.settings
             r == apply_logo(current_logo, default_settings, img, settings)
             entry == [original |-> img, processed |-> r.result, settings |-> settings]
         IN  IF img = None
             THEN /\ app' = [app EXCEPT !.call = "load_image", !.cache_hit = FALSE]
                  /\ UNCHANGED <<arg, kwargs, image, result, error>>
             ELSE /\ arg' = img
                  /\ kwargs' = settings
                  /\ image' = r.image
                  /\ result' = r.result
                  /\ error' = r.error
                  /\ app' = IF r.result # None
                            THEN _update_ui_state(
                                   [app EXCEPT
                                      !.processed_images =
                                          [f \in DOMAIN @ \cup {current_file} |->
                                              IF f = current_file THEN entry ELSE @[f]],
                                      !.call = "apply_logo",
                                      !.cache_hit = current_file \in DOMAIN app.processed_images])
                            ELSE [app EXCEPT !.call = "apply_logo",
                                             !.cache_hit = current_file \in DOMAIN app.processed_images]
    /\ UNCHANGED <<current_logo, default_settings, batch>>

\* _batch_process, lines 600-680, up to thread.start(): output_dir_chosen is
\* FALSE when the directory dialog was dismissed
_batch_process(output_dir_chosen) ==
    /\ ~Modal(app)
    /\ app.buttons.batch
    /\ Len(app.threads) < MaxWorkers
    /\ IF app.current_images = <<>> \/ ~app.logo_loaded \/ ~output_dir_chosen
       THEN app' = [app EXCEPT !.call = "none", !.cache_hit = FALSE]
       ELSE app' = [app EXCEPT
                      !.threads = Append(@, [id |-> FreeId(app), dialog |-> "open",
                                             settings |-> app.settings, shown |-> None]),
                      !.call = "batch_process", !.cache_hit = FALSE]
    /\ UNCHANGED <<current_logo, default_settings, arg, kwargs, image, result, error, batch>>

\* ProgressDialog.cancel, lines 562-567: the Cancel button of an open dialog
cancel ==
    \/ /\ app.running # None
       /\ app.running.dialog = "open"
       /\ app' = [app EXCEPT !.running.dialog = "cancelled"]
       /\ UNCHANGED <<current_logo, default_settings, arg, kwargs, image, result, error, batch>>
    \/ \E t \in 1..Len(app.threads) :
          /\ app.threads[t].dialog = "open"
          /\ app' = [app EXCEPT !.threads[t].dialog = "cancelled"]
          /\ UNCHANGED <<current_logo, default_settings, arg, kwargs, image, result, error, batch>>

\* process_thread, lines 631-640, up to the loop of batch_process;
\* mkdir_ok is FALSE when batch_process raises on creating the output
\* directory (line 457), and the except and finally clauses of lines 665-672
\* close the dialog, reset is_processing and schedule the refresh
process_thread_begin(mkdir_ok) ==
    /\ app.threads # <<>>
    /\ app.running = None
    /\ IF mkdir_ok
       THEN /\ BatchStart(app.current_images, TRUE, Head(app.threads).settings)
            /\ app' = _update_ui_state(
                         [app EXCEPT !.is_processing = TRUE,
                                     !.threads = Tail(@),
                                     !.running = Head(app.threads)])
       ELSE /\ app' = [_update_ui_state([app EXCEPT !.is_processing = TRUE])
                         EXCEPT !.is_processing = FALSE,
                                !.threads = Tail(@),
                                !.refresh_pending = TRUE]
            /\ UNCHANGED <<current_logo, default_settings, arg, kwargs, image, result,
                           error, batch>>

\* one iteration of the loop of batch_process in the worker, with the
\* progress_callback of lines 627-629
process_thread_item(save_ok) ==
    /\ app.running # None
    /\ BatchItem(save_ok)
    /\ app' = [app EXCEPT !.running.shown =
                  IF app.running.dialog = "open"
                  THEN [current |-> batch.i, total |-> Len(batch.image_paths)]
                  ELSE @]

\* a worker that ends without the finally clause
process_thread_end_NoFinally ==
    /\ app.running # None
    /\ app' = [app EXCEPT !.running = None]
    /\ BatchEnd

\* process_thread, lines 642-672: batch_process returns, the dialog is closed
\* unless it was cancelled, is_processing is reset and a refresh is scheduled
process_thread_end ==
    /\ app.running # None
    /\ app' = [app EXCEPT !.running = None,
                          !.is_processing = FALSE,
                          !.refresh_pending = TRUE]
    /\ BatchEnd

\* _prev_image, lines 929-937
_prev_image ==
    /\ ~Modal(app)
    /\ app' = IF app.current_images # <<>> /\ app.current_image_index > 0
              THEN [app EXCEPT !.current_image_index = @ - 1,
                               !.call = "none", !.cache_hit = FALSE]
              ELSE [app EXCEPT !.call = "none", !.cache_hit = FALSE]
    /\ UNCHANGED <<current_logo, default_settings, arg, kwargs, image, result, error, batch>>

\* a step forward from any image, the last one too
_next_image_PastTheEnd ==
    /\ ~Modal(app)
    /\ app' = IF app.current_images # <<>>
              THEN [app EXCEPT !.current_image_index = @ + 1,
                               !.call = "none", !.cache_hit = FALSE]
              ELSE [app EXCEPT !.call = "none", !.cache_hit = FALSE]
    /\ UNCHANGED <<current_logo, default_settings, arg, kwargs, image, result, error, batch>>

\* _next_image, lines 939-947
_next_image ==
    /\ ~Modal(app)
    /\ app' = IF /\ app.current_images # <<>>
                 /\ app.current_image_index < Len(app.current_images) - 1
              THEN [app EXCEPT !.current_image_index = @ + 1,
                               !.call = "none", !.cache_hit = FALSE]
              ELSE [app EXCEPT !.call = "none", !.cache_hit = FALSE]
    /\ UNCHANGED <<current_logo, default_settings, arg, kwargs, image, result, error, batch>>

\* the _update_ui_state scheduled with root.after(0, ...) on line 672
scheduled_update_ui_state ==
    /\ app.refresh_pending
    /\ ~Modal(app)
    /\ app' = _update_ui_state([app EXCEPT !.refresh_pending = FALSE])
    /\ UNCHANGED <<current_logo, default_settings, arg, kwargs, image, result, error, batch>>

ShellNext ==
    \/ \E settings \in PanelSettings : _on_setting_change(settings)
    \/ \E file_paths \in ShellPathLists : _load_image_files(file_paths)
    \/ \E file \in ShellLogoFiles, is_valid \in BOOLEAN : _load_logo(file, is_valid)
    \/ _apply_logo_to_current
    \/ _prev_image
    \/ _next_image
    \/ \E output_dir_chosen \in BOOLEAN : _batch_process(output_dir_chosen)
    \/ cancel
    \/ \E mkdir_ok \in BOOLEAN : process_thread_begin(mkdir_ok)
    \/ \E save_ok \in BOOLEAN : process_thread_item(save_ok)
    \/ process_thread_end
    \/ scheduled_update_ui_state

ShellSpec == Init /\ [][ShellNext]_vars

\* what every step of a worker thread changes
worker_vars == <<app.threads, app.running, batch.i, batch.status>>

\* the worker threads are scheduled: a worker that can take a step takes one
\* (weak fairness of each step; for the item step the enabling condition is
\* written out: a worker is in batch_process and an item is left)
ShellFairSpec ==
    /\ ShellSpec
    /\ WF_worker_vars(\E mkdir_ok \in BOOLEAN : process_thread_begin(mkdir_ok))
    /\ \/ []<>~(/\ app.running # None
                 /\ batch.status = "running"
                 /\ batch.i < Len(batch.image_paths))
       \/ []<><<\E save_ok \in BOOLEAN : process_thread_item(save_ok)>>_worker_vars
    /\ WF_worker_vars(process_thread_end)

\* ------------------------------------------------------------ properties
\* apply_logo has been called and has returned an image
Returned == image # None /\ result # None

\* the rectangle the returned image carries the logo in
Rect == result.layers[Len(result.layers)]

\* the settings the call ran with
CallSettings == Settings(default_settings, kwargs)

CallCustomPosition == GetCustomPosition(CallSettings)

SizeInRange == 0 < CallSettings["size"].n /\ CallSettings["size"].n <= CallSettings["size"].d

OpacityInRange == 0 <= CallSettings["opacity"].n /\ CallSettings["opacity"].n <= CallSettings["opacity"].d

LeftAnchors == {"top_left", "center_left", "bottom_left"}

RightAnchors == {"top_right", "center_right", "bottom_right"}

TopAnchors == {"top_left", "top_center", "top_right"}

BottomAnchors == {"bottom_left", "bottom_center", "bottom_right"}

\* C1: whenever apply_logo returns an image (margin >= 0, size in (0, 1],
\* opacity in [0, 1]), the logo rectangle lies fully inside the base image.
C1_RectInsideBase ==
    (Returned /\ SizeInRange /\ OpacityInRange /\ CallSettings["margin"] >= 0) =>
        /\ 0 <= Rect.x
        /\ 0 <= Rect.y
        /\ Rect.x + Rect.w <= arg.w
        /\ Rect.y + Rect.h <= arg.h

\* C2: with no logo loaded, apply_logo returns no image, logs the missing
\* logo and leaves the base image as it was, and batch_process returns an
\* empty list without loading, compositing or saving anything.
C2_NoLogoFails ==
    current_logo = None =>
        /\ image # None => (result = None /\ error = "no_logo" /\ image = arg)
        /\ batch.status # "running"
        /\ batch.status = "done" =>
              /\ batch.ret = <<>>
              /\ error = "no_logo"
              /\ batch.loaded = <<>>
              /\ batch.composited = <<>>
              /\ batch.saved = <<>>
              /\ batch.progress = <<>>

C2_Witness ==
    /\ current_logo = None
    /\ batch.status = "done"
    /\ Len(batch.image_paths) > 0
    /\ batch.ret = <<>>

\* C3: a call with a size outside (0, 1], all else valid, returns no image.
C3_SizeRejected ==
    (image # None /\ current_logo # None /\ ~SizeInRange /\ OpacityInRange) => result = None

\* C4: a call with an opacity outside [0, 1], all else valid, returns no image.
C4_OpacityRejected ==
    (image # None /\ current_logo # None /\ ~OpacityInRange /\ SizeInRange) => result = None

\* C5: a returned image has exactly the width and height of the base image.
C5_SameDimensions ==
    Returned => (result.w = arg.w /\ result.h = arg.h)

C5_Witness ==
    /\ Returned
    /\ Rect.h > arg.h
    /\ CallCustomPosition # None
    /\ result.w = arg.w

\* C6: without a custom position the margin is added on an axis whose
\* relative coordinate is 0, subtracted where it is 1 and not applied where
\* it is 0.5 (the final coordinate is the clamp of that value); the
\* bottom_right scenario yields a 200x100 logo at (780, 680).
C6_MarginSign ==
    (Returned /\ CallCustomPosition = None) =>
        LET p == IF CallSettings["position"] \in PositionNames
                 THEN CallSettings["position"] ELSE "bottom_right"
            m == CallSettings["margin"]
            cx == AnchorCoord(arg.w, Rect.w, LOGO_POSITIONS[p][1])
            cy == AnchorCoord(arg.h, Rect.h, LOGO_POSITIONS[p][2])
            px == IF p \in LeftAnchors THEN cx + m
                  ELSE IF p \in RightAnchors THEN cx - m ELSE cx
            py == IF p \in TopAnchors THEN cy + m
                  ELSE IF p \in BottomAnchors THEN cy - m ELSE cy
        IN  /\ Rect.x = Max(0, Min(px, arg.w - Rect.w))
            /\ Rect.y = Max(0, Min(py, arg.h - Rect.h))
            /\ (arg = ScenarioImage /\ kwargs = ScenarioKwargs
                  /\ current_logo.w = 200 /\ current_logo.h = 100) =>
                  (Rect.w = 200 /\ Rect.h = 100 /\ Rect.x = 780 /\ Rect.y = 680)

C6_Witness ==
    /\ Returned
    /\ arg = ScenarioImage
    /\ kwargs = ScenarioKwargs
    /\ current_logo.w = 200
    /\ current_logo.h = 100
    /\ Rect.x = 780
    /\ Rect.y = 680

\* C7: with margin 0, no custom position and a logo no larger than the
\* base, each edge the anchor names coincides with the base image edge.
C7_AnchorTouchesEdge ==
    (Returned /\ CallCustomPosition = None /\ CallSettings["margin"] = 0
       /\ CallSettings["position"] \in PositionNames
       /\ Rect.w <= arg.w /\ Rect.h <= arg.h) =>
        /\ CallSettings["position"] \in LeftAnchors => Rect.x = 0
        /\ CallSettings["position"] \in RightAnchors => Rect.x = arg.w - Rect.w
        /\ CallSettings["position"] \in TopAnchors => Rect.y = 0
        /\ CallSettings["position"] \in BottomAnchors => Rect.y = arg.h - Rect.h

C7_Witness ==
    /\ Returned
    /\ CallCustomPosition = None
    /\ CallSettings["margin"] = 0
    /\ CallSettings["position"] = "bottom_left"
    /\ Rect.w < arg.w
    /\ Rect.h < arg.h
    /\ Rect.x = 0
    /\ Rect.y = arg.h - Rect.h

\* C8: a supplied custom position is used as it is, whatever the position
\* name and the margin, subject only to the final clamp; (0, 0) included.
C8_CustomPositionUsed ==
    (Returned /\ CallCustomPosition # None) =>
        /\ Rect.x = Max(0, Min(CallCustomPosition.x, arg.w - Rect.w))
        /\ Rect.y = Max(0, Min(CallCustomPosition.y, arg.h - Rect.h))

C8_Witness ==
    /\ Returned
    /\ CallCustomPosition = [x |-> 0, y |-> 0]
    /\ CallSettings["position"] = "bottom_right"
    /\ CallSettings["margin"] > 0
    /\ Rect.w < arg.w
    /\ Rect.h < arg.h
    /\ Rect.x = 0
    /\ Rect.y = 0

\* C9: a position name outside the nine anchors does not fail the call: the
\* outcome is the outcome of the same call made with position bottom_right.
C9_UnknownPositionIsBottomRight ==
    (image # None /\ current_logo # None /\ "position" \in DOMAIN kwargs
       /\ kwargs["position"] \notin PositionNames) =>
        LET r == apply_logo(current_logo, default_settings, arg,
                            [kwargs EXCEPT !["position"] = "bottom_right"])
        IN  /\ result = r.result
            /\ error = r.error
            /\ (Returned /\ CallCustomPosition = None) =>
                  /\ Rect.x = Max(0, Min(arg.w - Rect.w - CallSettings["margin"], arg.w - Rect.w))
                  /\ Rect.y = Max(0, Min(arg.h - Rect.h - CallSettings["margin"], arg.h - Rect.h))

C9_Witness ==
    /\ Returned
    /\ kwargs["position"] \notin PositionNames
    /\ CallCustomPosition = None
    /\ Rect.w < arg.w
    /\ Rect.h < arg.h
    /\ Rect.x = arg.w - Rect.w - CallSettings["margin"]
    /\ Rect.x > 0
    /\ Rect.y = arg.h - Rect.h - CallSettings["margin"]
    /\ Rect.y > 0

\* whole-number rounding of a / d (a >= 0, d > 0), halves to the even neighbour
Round(a, d) ==
    LET q == a \div d
        rem == a % d
    IN  IF 2 * rem < d THEN q
        ELSE IF 2 * rem > d THEN q + 1
        ELSE IF q % 2 = 0 THEN q ELSE q + 1

Abs(a) == IF a < 0 THEN -a ELSE a

\* C10: for a size in (0, 1] (opacity valid) the logo width of a returned
\* image is floor(base_width * size).
C10_WidthIsFloor ==
    (Returned /\ SizeInRange /\ OpacityInRange) =>
        Rect.w = (arg.w * CallSettings["size"].n) \div CallSettings["size"].d

\* C11: the logo height of a returned image is
\* round(original_height * target_width / original_width).
C11_HeightIsRound ==
    (Returned /\ SizeInRange /\ OpacityInRange) =>
        Rect.h = Round(current_logo.h * Rect.w, current_logo.w)

\* C12: for a size in (0, 1] the logo height differs from
\* original_height * logo_width / original_width by less than one pixel.
C12_AspectWithinOnePixel ==
    (Returned /\ SizeInRange /\ OpacityInRange) =>
        Abs(Rect.h * current_logo.w - current_logo.h * Rect.w) < current_logo.w

\* C13: with opacity 1.0 no alpha scaling is applied: the paste uses the
\* logo's own alpha channel as decoded (or replaces the pixels when it has
\* none), so the output is the composite of the unscaled resized logo.
C13_FullOpacityUnscaled ==
    (Returned /\ CallSettings["opacity"] = R(1, 1)) =>
        /\ Rect.alpha = None
        /\ Rect.masked = current_logo.own
        /\ \A own_a \in AlphaSamples :
              MaskAt(Rect, own_a) = IF current_logo.own THEN own_a ELSE 255
        /\ result = Paste(arg, Resize(current_logo, Rect.w, Rect.h), Rect.x, Rect.y)

C13_Witness ==
    /\ Returned
    /\ CallSettings["opacity"] = R(1, 1)
    /\ current_logo.own
    /\ MaskAt(Rect, 128) = 128

\* C14: with opacity 0.0 every pixel under the logo rectangle keeps the value
\* of the base image, for logos with and without an alpha channel.
C14_ZeroOpacityKeepsBase ==
    (Returned /\ CallSettings["opacity"] = R(0, 1)) =>
        \A base_c \in ColorSamples, logo_c \in ColorSamples, own_a \in AlphaSamples :
            PixelAt(result, Rect.x, Rect.y, base_c, logo_c, own_a) = base_c

C14_Witness ==
    /\ Returned
    /\ CallSettings["opacity"] = R(0, 1)
    /\ ~current_logo.own
    /\ Rect.masked
    /\ Rect.x < arg.w
    /\ Rect.y < arg.h
    /\ PixelAt(result, Rect.x, Rect.y, 100, 255, 255) = 100

\* the rectangle apply_logo computes for the call, from its inputs
FinalRect ==
    LET w == LogoWidth(arg.w, CallSettings["size"])
        h == LogoHeight(current_logo, w)
        pos == Place(CallSettings, arg.w, arg.h, w, h)
    IN  [x |-> Clamp(pos[1], arg.w, w), y |-> Clamp(pos[2], arg.h, h), w |-> w, h |-> h]

\* the coordinates next to an edge of the image or of a rectangle
EdgeCoords(dim, a, len) ==
    {0, a - 1, a, a + len - 1, a + len, dim - 1} \cap (0..(dim - 1))

\* C15: every pixel of the returned image outside the final logo rectangle
\* has the value of the same pixel of the base image.
C15_OutsideUnchanged ==
    Returned =>
        LET fr == FinalRect
            xs == EdgeCoords(arg.w, fr.x, fr.w) \cup EdgeCoords(arg.w, Rect.x, Rect.w)
            ys == EdgeCoords(arg.h, fr.y, fr.h) \cup EdgeCoords(arg.h, Rect.y, Rect.h)
            outside == {p \in xs \X ys : ~(/\ fr.x <= p[1] /\ p[1] < fr.x + fr.w
                                           /\ fr.y <= p[2] /\ p[2] < fr.y + fr.h)}
        IN  \A p \in outside :
                \A base_c \in ColorSamples, logo_c \in ColorSamples, own_a \in AlphaSamples :
                    PixelAt(result, p[1], p[2], base_c, logo_c, own_a)
                      = PixelAt(arg, p[1], p[2], base_c, logo_c, own_a)

C15_Witness ==
    /\ Returned
    /\ Rect.x > 0
    /\ Rect.y = 0
    /\ Rect.w < arg.w
    /\ Rect.h < arg.h
    /\ PixelAt(result, Rect.x, Rect.y, 0, 255, 255) = 255
    /\ PixelAt(result, Rect.x - 1, Rect.y, 0, 255, 255) = 0
    /\ PixelAt(result, Rect.x, Rect.y + Rect.h, 0, 255, 255) = 0

\* C16: a call of apply_logo, successful or failed, leaves the image passed
\* in, current_logo and default_settings as they were, so the same call made
\* again returns an equal result.
C16_NoSideEffects ==
    [][/\ image' = arg'
       /\ current_logo' = current_logo
       /\ default_settings' = default_settings
       /\ result' = apply_logo(current_logo', default_settings', image', kwargs').result]_vars

C16_Witness ==
    /\ Returned
    /\ image = arg
    /\ arg.layers = <<>>
    /\ Len(result.layers) = 1
    /\ default_settings = DefaultSettings

\* the image the same call returns with the margin m
WithMargin(m) ==
    apply_logo(current_logo, default_settings, arg,
               [k \in DOMAIN kwargs \cup {"margin"} |->
                   IF k = "margin" THEN m ELSE kwargs[k]]).result

\* the anchor the call uses, and the edges of the base image it lies on
CallAnchor ==
    IF CallSettings["position"] \in PositionNames
    THEN CallSettings["position"] ELSE "bottom_right"

CallEdges ==
    (IF CallAnchor \in LeftAnchors THEN {"left"} ELSE {})
      \cup (IF CallAnchor \in RightAnchors THEN {"right"} ELSE {})
      \cup (IF CallAnchor \in TopAnchors THEN {"top"} ELSE {})
      \cup (IF CallAnchor \in BottomAnchors THEN {"bottom"} ELSE {})

\* the gap between an edge of the image and the same edge of its last overlay
Gap(img, edge) ==
    LET l == img.layers[Len(img.layers)]
    IN  CASE edge = "left" -> l.x
          [] edge = "right" -> arg.w - l.x - l.w
          [] edge = "top" -> l.y
          [] edge = "bottom" -> arg.h - l.y - l.h

\* what the logo leaves free along the axis of an edge
Slack(edge) ==
    IF edge \in {"left", "right"} THEN arg.w - Rect.w ELSE arg.h - Rect.h

\* C19 as stated: with the signed distance of the logo from an edge counted
\* negative inside the image, a margin larger by one makes the distance
\* strictly smaller, or leaves it at 0, for a logo that fits in the image.
C19_MarginStrictlyDecreases ==
    (Returned /\ CallCustomPosition = None /\ SizeInRange /\ OpacityInRange
       /\ Rect.w <= arg.w /\ Rect.h <= arg.h) =>
        \A edge \in CallEdges :
            LET d0 == 0 - Gap(result, edge)
                d1 == 0 - Gap(WithMargin(CallSettings["margin"] + 1), edge)
            IN  d1 < d0 \/ (d0 = 0 /\ d1 = 0)

\* C19 as the code has it: the gap between the logo and an edge its anchor
\* lies on is the margin, held at the slack of the axis once the margin
\* reaches it (and at 0 on the left and top when the logo overhangs); a
\* larger margin never makes the gap smaller and makes it larger while the
\* margin is below the slack.
C19_GapIsClampedMargin ==
    (Returned /\ CallCustomPosition = None) =>
        \A edge \in CallEdges :
            LET m == CallSettings["margin"]
                g0 == Gap(result, edge)
                g1 == Gap(WithMargin(m + 1), edge)
            IN  /\ g0 = IF edge \in {"left", "top"}
                        THEN Max(0, Min(m, Slack(edge)))
                        ELSE Min(m, Slack(edge))
                /\ g1 >= g0
                /\ m < Slack(edge) => g1 = g0 + 1

C19_Witness ==
    /\ Returned
    /\ CallCustomPosition = None
    /\ CallAnchor = "top_right"
    /\ CallSettings["margin"] = 1
    /\ Slack("right") = 1
    /\ Slack("top") > 1
    /\ Gap(result, "right") = 1
    /\ Gap(WithMargin(2), "right") = 1
    /\ Gap(result, "top") = 1
    /\ Gap(WithMargin(2), "top") = 2

\* the progress the dialog of the running worker showed last
ShownCurrent == IF app.running.shown = None THEN 0 ELSE app.running.shown.current

\* C17: once the progress dialog of the running batch is cancelled, the loop
\* goes no further than the item that was in progress: no later item is
\* loaded, composited or saved.
C17_CancelStopsBatch ==
    (app.running # None /\ app.running.dialog = "cancelled") =>
        batch.i <= ShownCurrent + 1

\* the items of the batch so far that load_image could load
LoadableSoFar == {j \in 1..batch.i : load_image(batch.image_paths[j]) # None}

\* C18: in a batch with a logo loaded the callback is invoked with
\* (0, n), (1, n), ... : each invocation reports the number of items finished
\* when it is made, saved or skipped, never less than the one before, one
\* invocation follows the end of every item, and the last reports (n, n).
C18_ProgressCountsFinished ==
    (batch.callback /\ batch.status \in {"running", "done"} /\ current_logo # None) =>
        LET n == Len(batch.image_paths)
        IN  /\ \A j \in 1..Len(batch.progress) : batch.progress[j] = <<j - 1, n>>
            /\ Len(batch.loaded) = Cardinality(LoadableSoFar)
            /\ batch.status = "running" => Len(batch.progress) = batch.i
            /\ batch.status = "done" =>
                  (batch.i = n /\ Len(batch.progress) = n + 1 /\ batch.progress[n + 1] = <<n, n>>)

C18_Witness ==
    /\ batch.callback
    /\ batch.status = "done"
    /\ current_logo # None
    /\ batch.progress = <<(<<0, 2>>), (<<1, 2>>), (<<2, 2>>)>>
    /\ Len(batch.loaded) = 1
    /\ Len(batch.saved) = 1

\* C20: logo_loaded implies that the processor holds a logo, also after a
\* later load_logo failed; the shell never reaches apply_logo or
\* batch_process without a logo, so the compositor never reports a missing one.
C20_LogoLoadedMeansLogo ==
    /\ app.logo_loaded => current_logo # None
    /\ app.call \in {"apply_logo", "batch_process"} => app.logo_loaded
    /\ (app.threads # <<>> \/ app.running # None) => app.logo_loaded
    /\ error # "no_logo"

C20_Witness ==
    /\ app.logo_loaded
    /\ app.call = "load_logo_failed"
    /\ current_logo # None
    /\ result # None
    /\ batch.status = "done"

\* C21: without a custom position the coordinate on each axis, before the
\* margin, is round((base_dim - logo_dim) * relCoord), so the rectangle is
\* where the margin and the clamp put that rounded coordinate.
C21_CoordinateIsRound ==
    (Returned /\ CallCustomPosition = None /\ SizeInRange /\ OpacityInRange) =>
        LET rel == Anchor(CallSettings["position"])
            m == CallSettings["margin"]
            px == Round((arg.w - Rect.w) * rel[1].n, rel[1].d)
            py == Round((arg.h - Rect.h) * rel[2].n, rel[2].d)
        IN  /\ Rect.x = Clamp(MarginCoord(px, rel[1], m), arg.w, Rect.w)
            /\ Rect.y = Clamp(MarginCoord(py, rel[2], m), arg.h, Rect.h)

\* C22: when the resized logo is larger than the base image in a dimension,
\* apply_logo returns an image and the coordinate of the logo in that
\* dimension is 0, whatever the anchor, the margin and the custom position.
C22_LargerLogoStartsAtZero ==
    (image # None /\ current_logo # None) =>
        LET w == LogoWidth(arg.w, CallSettings["size"])
            h == LogoHeight(current_logo, w)
        IN  (~ResizeRaises(w, h) /\ (w > arg.w \/ h > arg.h)) =>
                /\ result # None
                /\ w > arg.w => Rect.x = 0
                /\ h > arg.h => Rect.y = 0

C22_Witness ==
    /\ Returned
    /\ SizeInRange
    /\ Rect.h > arg.h
    /\ Rect.w = arg.w
    /\ CallCustomPosition # None
    /\ CallCustomPosition.y > arg.h
    /\ Rect.y = 0

\* a is b with some elements left out
RECURSIVE IsSubSeq(_, _)
IsSubSeq(a, b) ==
    IF a = <<>> THEN TRUE
    ELSE IF b = <<>> THEN FALSE
    ELSE IF Head(a) = Head(b) THEN IsSubSeq(Tail(a), Tail(b))
    ELSE IsSubSeq(a, Tail(b))

Loadable(path) == load_image(path) # None

\* C23: a finished batch_process has attempted every item (it has loaded
\* every loadable one, in input order) and returns exactly the output paths
\* it saved, which are output paths of composited items in input order; so
\* it returns no more paths than it was given.
C23_ReturnsSavedInOrder ==
    (batch.status = "done" /\ error # "no_logo") =>
        /\ batch.i = Len(batch.image_paths)
        /\ batch.loaded = SelectSeq(batch.image_paths, Loadable)
        /\ IsSubSeq(batch.composited, batch.loaded)
        /\ batch.ret = batch.saved
        /\ IsSubSeq(batch.saved,
                    [j \in 1..Len(batch.composited) |-> OutputFile("out", batch.composited[j])])
        /\ Len(batch.ret) <= Len(batch.image_paths)

C23_Witness ==
    /\ batch.status = "done"
    /\ error # "no_logo"
    /\ Len(batch.image_paths) = 2
    /\ ~Loadable(batch.image_paths[1])
    /\ Len(batch.loaded) = 1
    /\ Len(batch.ret) = 1

\* C30: a batch over pairwise distinct input paths returns pairwise distinct
\* output paths, so no output is written over the output of another input.
C30_DistinctOutputs ==
    (/\ batch.status = "done"
     /\ \A i, j \in 1..Len(batch.image_paths) :
           i # j => batch.image_paths[i] # batch.image_paths[j]) =>
        \A i, j \in 1..Len(batch.ret) : i # j => batch.ret[i] # batch.ret[j]

\* the number of worker threads that exist
WorkerCount(a) == Len(a.threads) + (IF a.running # None THEN 1 ELSE 0)

C25_AtMostOneWorker == WorkerCount(app) <= 1

\* C26: applying the logo to an image that has a cached result composites
\* onto the cached original: the original of the entry stays, and the new
\* processed image is the one a single application to the original gives.
C26_ReapplyOntoOriginal ==
    [][(/\ _apply_logo_to_current
        /\ app.current_images # <<>>
        /\ app.current_images[app.current_image_index + 1] \in DOMAIN app.processed_images) =>
          LET current_file == app.current_images[app.current_image_index + 1]
              old == app.processed_images[current_file]
              new == app'.processed_images[current_file]
              once == apply_logo(current_logo, default_settings, old.original, app.settings).result
          IN  /\ arg' = old.original
              /\ new.original = old.original
              /\ new.original.layers = <<>>
              /\ result' = once
              /\ new.processed = IF once # None THEN once ELSE old.processed
              /\ Len(new.processed.layers) = 1]_vars

C26_Witness ==
    /\ app.cache_hit
    /\ app.call = "apply_logo"
    /\ result # None
    /\ Len(result.layers) = 1
    /\ app.processed_images[app.current_images[app.current_image_index + 1]].processed = result
    /\ app.processed_images[app.current_images[app.current_image_index + 1]].original = arg

\* the files of a list that pass validate_image_file
ValidFiles(file_paths) == SelectSeq(file_paths, validate_image_file)

\* C27: every key of processed_images is one of current_images; a load with
\* a valid file replaces the list, resets the index and empties the cache, and
\* a load without one leaves the three as they were.
C27_CacheKeysAreCurrent ==
    /\ [](DOMAIN app.processed_images \subseteq
             {app.current_images[j] : j \in 1..Len(app.current_images)})
    /\ [][\A file_paths \in ShellPathLists :
            _load_image_files(file_paths) =>
               IF ValidFiles(file_paths) = <<>>
               THEN /\ app'.current_images = app.current_images
                    /\ app'.current_image_index = app.current_image_index
                    /\ app'.processed_images = app.processed_images
               ELSE /\ app'.current_images = ValidFiles(file_paths)
                    /\ app'.current_image_index = 0
                    /\ DOMAIN app'.processed_images = {}]_vars

C27_Witness ==
    /\ Len(app.current_images) = 1
    /\ app.current_images[1] \notin DOMAIN app.processed_images
    /\ DOMAIN app.processed_images = {}
    /\ app.call = "none"
    /\ result # None
    /\ arg # load_image(app.current_images[1])

\* C28: with images loaded the index is that of one of them, and _prev_image
\* at the first image and _next_image at the last leave it where it is.
C28_IndexInRange ==
    /\ [](app.current_images # <<>> =>
            (0 <= app.current_image_index
               /\ app.current_image_index < Len(app.current_images)))
    /\ [][/\ (_prev_image /\ app.current_image_index = 0) =>
                app'.current_image_index = 0
          /\ (_next_image /\ app.current_image_index = Len(app.current_images) - 1) =>
                app'.current_image_index = app.current_image_index]_vars

C28_Witness ==
    /\ Len(app.current_images) = 2
    /\ app.current_image_index = 1
    /\ app.call = "none"

\* C29: get_settings returns what the controls of the panel hold, so a logo
\* is applied with the position, size, opacity and margin displayed.
C29_SettingsAreControls ==
    [][(_apply_logo_to_current /\ app'.call = "apply_logo") =>
          /\ kwargs' = app.controls
          /\ Settings(default_settings, kwargs') = app.controls]_vars

====
